---- MODULE Spec2Model ----
(***************************************************************************)
(* A model of eltetrado's structure reader (src/eltetrado/structure.py)    *)
(* and of its DSSR annotation import (src/eltetrado/cli.py).               *)
(*                                                                         *)
(* Spec     : read_3d_structure = is_cif, parse_cif | parse_pdb, the model *)
(*            filter, group_atoms.                                         *)
(* SpecDssr : read_secondary_structure_from_dssr.                          *)
(*                                                                         *)
(* Python values are represented as follows.  An optional value is a       *)
(* tuple: None is <<>>, a present value v is <<v>>.  A dict is a function  *)
(* whose DOMAIN is the set of its keys.  A str that the code splits is     *)
(* the sequence of the pieces that split yields.                           *)
(***************************************************************************)
EXTENDS Integers, Sequences, FiniteSets, TLC

VARIABLES pc, doc, model, atoms, modified, residues,
          dssr, structure3d, base_pairs, stackings

vars == <<pc, doc, model, atoms, modified, residues,
          dssr, structure3d, base_pairs, stackings>>

\* ------------------------------------------------------------------ bounds

\* Longest atom table / fixed-column file (in rows / lines) with every column.
MaxRows == 3
\* Longest atom table when the columns present vary.
MaxSparseRows == 1
\* Most residues of the structure an annotation payload is matched against.
MaxResidues == 2
\* Longest per-model list of an annotation payload.
MaxRecords == 2
\* Longest pair list of an annotation payload.
MaxPairs == 2
\* Most descriptors in the list of one stack.
MaxTokens == 3

\* ------------------------------------------------------- Python primitives

None == <<>>

Some(v) == <<v>>

EmptyDict == [k \in {} |-> ""]

\* dict.get(key, None)
Get(d, key) == IF key \in DOMAIN d THEN Some(d[key]) ELSE None

\* dict.get(key, default)
GetOr(d, key, default) == IF key \in DOMAIN d THEN d[key] ELSE default

\* d[key] = value
Put(d, key, value) ==
    [k \in DOMAIN d \cup {key} |-> IF k = key THEN value ELSE d[k]]

\* int(s) for the strings of the model; a string outside the table is one
\* int() rejects with ValueError ("?" and "." are mmCIF's placeholders).
IntTable == [s \in {"1", "2", "7"} |-> CASE s = "1" -> 1 [] s = "2" -> 2 [] s = "7" -> 7]

\* float(s) for the coordinate strings of the model, in thousandths.
FloatTable == [s \in {"0.000", "1.000"} |-> IF s = "0.000" THEN 0 ELSE 1000]

\* str.lower() on the residue names of the model.
Lower(s) ==
    CASE s = "U" -> "u"
      [] s = "G" -> "g"
      [] s = "DG" -> "dg"
      [] OTHER -> s

\* frozenset(list)
FrozenSet(list) == {list[i] : i \in DOMAIN list}

\* ---------------------------------------------------------------- the data

Models == {1, 2}

ResidueLabel(chain, number, name) ==
    [chain |-> chain, number |-> number, name |-> name]

ResidueAuth(chain, number, icode, name) ==
    [chain |-> chain, number |-> number, icode |-> icode, name |-> name]

Atom3D(label, auth, mdl, atomName, x, y, z) ==
    [label |-> label, auth |-> auth, model |-> mdl, atomName |-> atomName,
     x |-> x, y |-> y, z |-> z]

Residue3D(index, name, mdl, label, auth, atomset) ==
    [index |-> index, name |-> name, model |-> mdl, label |-> label,
     auth |-> auth, atoms |-> atomset]

\* ------------------------------------------------------------ try_parse_int

\* try_parse_int(s): int(None) raises TypeError, which the except clause
\* (ValueError only) lets through; a string int() rejects gives None.
try_parse_int(s) ==
    IF s = None THEN [raised |-> TRUE, value |-> None]
    ELSE IF s[1] \in DOMAIN IntTable
         THEN [raised |-> FALSE, value |-> Some(IntTable[s[1]])]
         ELSE [raised |-> FALSE, value |-> None]

\* ---------------------------------------------------------------- parse_cif

\* The label key of a row: complete or None.
cif_label(row_dict) ==
    LET label_chain_name == Get(row_dict, "label_asym_id")
        label_residue_number == try_parse_int(Get(row_dict, "label_seq_id")).value
        label_residue_name == Get(row_dict, "label_comp_id")
    IN  IF label_chain_name # None /\ label_residue_number # None
           /\ label_residue_name # None
        THEN Some(ResidueLabel(label_chain_name[1], label_residue_number[1],
                               label_residue_name[1]))
        ELSE None

\* The auth key of a row: complete or None; ins_key is the column the
\* insertion code is read from.
cif_auth(row_dict, ins_key) ==
    LET auth_chain_name == Get(row_dict, "auth_asym_id")
        auth_residue_number == try_parse_int(Get(row_dict, "auth_seq_id")).value
        auth_residue_name == Get(row_dict, "auth_comp_id")
        insertion_code == Get(row_dict, ins_key)
    IN  IF auth_chain_name # None /\ auth_residue_number # None
           /\ auth_residue_name # None /\ insertion_code # None
        THEN Some(ResidueAuth(auth_chain_name[1], auth_residue_number[1],
                              insertion_code[1], auth_residue_name[1]))
        ELSE None

\* Whether the two try_parse_int calls of a row raise (TypeError).
cif_row_type_error(row_dict) ==
    \/ try_parse_int(Get(row_dict, "label_seq_id")).raised
    \/ try_parse_int(Get(row_dict, "auth_seq_id")).raised

\* The three RuntimeError checks of an atom row.
cif_row_runtime_error(row_dict) ==
    \/ Get(row_dict, "label_asym_id") = None /\ Get(row_dict, "auth_asym_id") = None
    \/ /\ try_parse_int(Get(row_dict, "label_seq_id")).value = None
       /\ try_parse_int(Get(row_dict, "auth_seq_id")).value = None
    \/ Get(row_dict, "label_comp_id") = None /\ Get(row_dict, "auth_comp_id") = None

\* One atom row that raised nothing.
cif_atom(row_dict) ==
    Atom3D(cif_label(row_dict), cif_auth(row_dict, "pdbx_PDB_ins_code"),
           IntTable[GetOr(row_dict, "pdbx_PDB_model_num", "1")],
           row_dict["label_atom_id"],
           FloatTable[row_dict["Cartn_x"]], FloatTable[row_dict["Cartn_y"]],
           FloatTable[row_dict["Cartn_z"]])

\* The modified-residue loop: both keys are stored, complete or None.
RECURSIVE cif_modified(_, _)
cif_modified(mod_rows, n) ==
    IF n = 0 THEN EmptyDict
    ELSE LET row_dict == mod_rows[n]
             standard_residue_name == GetOr(row_dict, "parent_comp_id", "n")
         IN  Put(Put(cif_modified(mod_rows, n - 1),
                     cif_label(row_dict), standard_residue_name),
                 cif_auth(row_dict, "PDB_ins_code"), standard_residue_name)

\* parse_cif: the atoms and the modification table, or an exception.  A
\* modified-residue row is read under the atom table's attribute list.
parse_cif(cif) ==
    IF \/ \E i \in DOMAIN cif.rows :
              cif_row_type_error(cif.rows[i]) \/ cif_row_runtime_error(cif.rows[i])
       \/ \E i \in DOMAIN cif.mod_rows : cif_row_type_error(cif.mod_rows[i])
    THEN [raised |-> TRUE, atoms |-> <<>>, modified |-> EmptyDict]
    ELSE [raised |-> FALSE,
          atoms |-> [i \in DOMAIN cif.rows |-> cif_atom(cif.rows[i])],
          modified |-> cif_modified(cif.mod_rows, Len(cif.mod_rows))]

\* ---------------------------------------------------------------- parse_pdb

\* line[18:20].strip() of an ATOM/HETATM line whose residue name field
\* (columns 18-20) is s: the slice starts one column late.
AtomResidueName(s) ==
    CASE s = "  G" -> "G"
      [] s = " DG" -> "DG"
      [] s = "PSU" -> "SU"
      [] OTHER -> s

\* line[24:27].strip() of a MODRES line.
Strip(s) ==
    CASE s = "  U" -> "U"
      [] s = "  G" -> "G"
      [] s = " DG" -> "DG"
      [] OTHER -> s

IsAtomLine(line) == line.record \in {"ATOM", "HETATM"}

\* Whether an ATOM/HETATM line is read (line 123 skips it otherwise).
KeepsAltLoc(alternate_location) == alternate_location = " "

pdb_atom(line, mdl) ==
    Atom3D(None,
           Some(ResidueAuth(line.chain, line.number, line.icode,
                            AtomResidueName(line.resName))),
           mdl, line.atomName, line.x, line.y, line.z)

\* The state of the line loop after the first n lines.
RECURSIVE pdb_loop(_, _)
pdb_loop(lines, n) ==
    IF n = 0 THEN [atoms |-> <<>>, modified |-> EmptyDict, model |-> 1]
    ELSE LET s == pdb_loop(lines, n - 1)
             line == lines[n]
         IN  IF line.record = "MODEL"
             THEN [s EXCEPT !.model = line.serial]
             ELSE IF IsAtomLine(line)
             THEN IF ~KeepsAltLoc(line.altLoc) THEN s
                  ELSE [s EXCEPT !.atoms = Append(@, pdb_atom(line, s.model))]
             ELSE IF line.record = "MODRES"
             THEN [s EXCEPT !.modified =
                      Put(@, Some(ResidueAuth(line.chain, line.number, line.icode,
                                              line.resName)),
                          Strip(line.stdName))]
             ELSE s

parse_pdb(pdb) ==
    LET s == pdb_loop(pdb.lines, Len(pdb.lines))
    IN  [raised |-> FALSE, atoms |-> s.atoms, modified |-> s.modified]

\* ------------------------------------------------------------------- is_cif

is_cif(cif_or_pdb) == cif_or_pdb.format = "cif"

\* --------------------------------------------------------- get_residue_name

get_residue_name(auth, label, mod) ==
    IF auth \in DOMAIN mod THEN Lower(mod[auth])
    ELSE IF label \in DOMAIN mod THEN Lower(mod[label])
    ELSE IF auth # None THEN auth[1].name
    ELSE IF label # None THEN label[1].name
    ELSE "n"

\* -------------------------------------------------------------- group_atoms

AtomKey(atom) == <<atom.label, atom.auth, atom.model>>

\* A faulty variant of SameKey: the auth keys alone are compared.
SameAuth(key, key_previous) == key[2] = key_previous[2]

\* key == key_previous
SameKey(key, key_previous) == key = key_previous

\* A faulty variant of NextIndex: the index is not advanced.
SameIndex(index) == index

\* index += 1
NextIndex(index) == index + 1

CloseResidue(index, key_previous, residue_atoms, mod) ==
    Residue3D(index, get_residue_name(key_previous[2], key_previous[1], mod),
              key_previous[3], key_previous[1], key_previous[2],
              FrozenSet(residue_atoms))

\* The loop over atoms[1:], from position i, and the closing of the last
\* residue after it.
RECURSIVE group_loop(_, _, _, _, _, _, _)
group_loop(list, i, key_previous, residue_atoms, acc, index, mod) ==
    IF i > Len(list)
    THEN Append(acc, CloseResidue(index, key_previous, residue_atoms, mod))
    ELSE LET atom == list[i]
             key == AtomKey(atom)
         IN  IF SameKey(key, key_previous)
             THEN group_loop(list, i + 1, key_previous,
                             Append(residue_atoms, atom), acc, index, mod)
             ELSE group_loop(list, i + 1, key, <<atom>>,
                             Append(acc, CloseResidue(index, key_previous,
                                                      residue_atoms, mod)),
                             NextIndex(index), mod)

group_atoms(list, mod) ==
    IF list = <<>> THEN <<>>
    ELSE group_loop(list, 2, AtomKey(list[1]), <<list[1]>>, <<>>, 1, mod)

\* -------------------------------------------------------- read_3d_structure

\* A faulty variant of KeepsModel: later models pass the filter too.
KeepsModelOrLater(atom, mdl) == atom.model >= mdl

\* lambda atom: atom.model == model
KeepsModel(atom, mdl) == atom.model = mdl

\* list(filter(..., atoms)): the positions kept, in order.
RECURSIVE FilterModel(_, _)
FilterModel(list, mdl) ==
    IF list = <<>> THEN <<>>
    ELSE LET rest == FilterModel(SubSeq(list, 2, Len(list)), mdl)
         IN  IF KeepsModel(list[1], mdl) THEN <<list[1]>> \o rest ELSE rest

\* ------------------------------------------------------------ the 2D import

\* rnapolis.common.Residue, as far as the import reads it.
Residue(index, full_name) == [index |-> index, full_name |-> full_name]

BasePair(nt1, nt2, lw) == [nt1 |-> nt1, nt2 |-> nt2, lw |-> lw]

Stacking(nt1, nt2) == [nt1 |-> nt1, nt2 |-> nt2]

\* The member names of the LeontisWesthof enumeration.
LeontisWesthof ==
    {"cWW", "cWH", "cWS", "cHW", "cHH", "cHS", "cSW", "cSH", "cSS",
     "tWW", "tWH", "tWS", "tHW", "tHH", "tHS", "tSW", "tSH", "tSS"}

\* dir(LeontisWesthof): the member names and the names every Enum class
\* lists besides them.
DirLeontisWesthof ==
    LeontisWesthof \cup {"__class__", "__doc__", "__members__", "__module__"}

\* match_dssr_lw: LeontisWesthof[lw] raises KeyError for a name that is in
\* dir() without being a member.
match_dssr_lw(lw) ==
    IF lw # None /\ lw[1] \in DirLeontisWesthof
    THEN IF lw[1] \in LeontisWesthof
         THEN [raised |-> FALSE, value |-> Some(lw[1])]
         ELSE [raised |-> TRUE, value |-> None]
    ELSE [raised |-> FALSE, value |-> None]

\* nt_id.split(":")[-1], nt_id given as the pieces split(":") yields.
LastPiece(nt_id) == nt_id[Len(nt_id)]

\* match_dssr_name_to_residue: the first residue with that full name.
match_dssr_name_to_residue(s3d, nt_id) ==
    IF nt_id # None
    THEN LET name == LastPiece(nt_id[1])
             hits == {i \in DOMAIN s3d : s3d[i].full_name = name}
         IN  IF hits # {}
             THEN Some(s3d[CHOOSE i \in hits : \A j \in hits : i <= j])
             ELSE None
    ELSE None

\* Lines 192-195: the parameters of the first record of the model, or the
\* payload itself when the loop ends without a break.
RECURSIVE select_loop(_, _, _, _)
select_loop(payload, results, i, mdl) ==
    IF i > Len(results) THEN payload
    ELSE IF Get(results[i], "model") = Some(mdl)
         THEN GetOr(results[i], "parameters", EmptyDict)
         ELSE select_loop(payload, results, i + 1, mdl)

select_model(payload, mdl) ==
    select_loop(payload, GetOr(payload, "models", <<>>), 1, mdl)

\* Lines 197-203: the pair loop over the first n pairs.
RECURSIVE pairs_loop(_, _, _)
pairs_loop(s3d, pairs, n) ==
    IF n = 0 THEN [raised |-> FALSE, base_pairs |-> <<>>]
    ELSE LET before == pairs_loop(s3d, pairs, n - 1)
             pair == pairs[n]
             nt1 == match_dssr_name_to_residue(s3d, Get(pair, "nt1"))
             nt2 == match_dssr_name_to_residue(s3d, Get(pair, "nt2"))
             lw == match_dssr_lw(Get(pair, "LW"))
         IN  IF before.raised \/ lw.raised
             THEN [raised |-> TRUE, base_pairs |-> <<>>]
             ELSE IF nt1 # None /\ nt2 # None /\ lw.value # None
             THEN [before EXCEPT !.base_pairs =
                      Append(@, BasePair(nt1[1], nt2[1], lw.value[1]))]
             ELSE before

\* "".split(","): one empty descriptor.
EmptyString == << <<"">> >>

\* Whether the stack loop emits a relation for two neighbours of nts.
StacksOn(nt1, nt2) == nt1 # None /\ nt2 # None

\* A faulty variant of stack_relations: the unresolved descriptors are dropped
\* first, so that the resolved ones on either side of them are paired.
BridgingRelations(nts, i) ==
    LET IsResolved(nt) == nt # None
        found == SelectSeq(nts, IsResolved)
    IN  [j \in 1..(Len(found) - 1) |-> Stacking(found[j][1], found[j + 1][1])]

\* Lines 206-214 for one stack: the relations of positions i..len(nts)-1.
RECURSIVE stack_relations(_, _)
stack_relations(nts, i) ==
    IF i > Len(nts) THEN <<>>
    ELSE (IF StacksOn(nts[i - 1], nts[i])
          THEN <<Stacking(nts[i - 1][1], nts[i][1])>>
          ELSE <<>>) \o stack_relations(nts, i + 1)

stack_nts(s3d, stack) ==
    LET tokens == GetOr(stack, "nts_long", EmptyString)
    IN  [i \in DOMAIN tokens |-> match_dssr_name_to_residue(s3d, Some(tokens[i]))]

\* Lines 205-214: the stack loop over the first n stacks.
RECURSIVE stacks_loop(_, _, _)
stacks_loop(s3d, stacks, n) ==
    IF n = 0 THEN <<>>
    ELSE stacks_loop(s3d, stacks, n - 1)
         \o stack_relations(stack_nts(s3d, stacks[n]), 2)

read_secondary_structure_from_dssr(s3d, mdl, payload) ==
    LET selected == select_model(payload, mdl)
        pairs == GetOr(selected, "pairs", <<>>)
        stacks == GetOr(selected, "stacks", <<>>)
        p == pairs_loop(s3d, pairs, Len(pairs))
    IN  IF p.raised
        THEN [raised |-> TRUE, base_pairs |-> <<>>, stackings |-> <<>>]
        ELSE [raised |-> FALSE, base_pairs |-> p.base_pairs,
              stackings |-> stacks_loop(s3d, stacks, Len(stacks))]

\* --------------------------------------------------------------- the inputs

\* Every sequence over S of length at most n.
SeqsUpTo(S, n) == UNION {[1..k -> S] : k \in 0..n}

Restrict(f, S) == [k \in S |-> f[k]]

\* atom_site columns that identify the residue of a row.
IdColumns ==
    {"label_asym_id", "label_seq_id", "label_comp_id",
     "auth_asym_id", "auth_seq_id", "auth_comp_id", "pdbx_PDB_ins_code"}

\* Columns the modified-residue loop looks up that atom_site does not
\* normally carry.
ModColumns == {"PDB_ins_code", "parent_comp_id"}

\* atom_site columns taken as always present.
DataColumns ==
    {"pdbx_PDB_model_num", "label_atom_id", "Cartn_x", "Cartn_y", "Cartn_z"}

\* A table row with a value in every column.
CifRow(chain, lseq, aseq, mdl, atomName) ==
    [k \in IdColumns \cup ModColumns \cup DataColumns |->
        CASE k = "label_asym_id" -> chain
          [] k = "label_seq_id" -> lseq
          [] k = "label_comp_id" -> "G"
          [] k = "auth_asym_id" -> chain
          [] k = "auth_seq_id" -> aseq
          [] k = "auth_comp_id" -> "DG"
          [] k = "pdbx_PDB_ins_code" -> "?"
          [] k = "PDB_ins_code" -> "?"
          [] k = "parent_comp_id" -> "U"
          [] k = "pdbx_PDB_model_num" -> mdl
          [] k = "label_atom_id" -> atomName
          [] OTHER -> "0.000"]

\* Rows of a table with every standard column: chains, numbers, models,
\* atom names and coordinates vary.
DenseRows ==
    {CifRow(id[1], id[2], "7", "1", atomName) :
        id \in {<<"A", "1">>, <<"A", "2">>, <<"B", "1">>, <<"A", "?">>},
        atomName \in {"P", "C1"}}
    \cup {CifRow("A", lseq, "7", "2", "P") : lseq \in {"1", "2"}}
    \cup {[CifRow("A", "1", "7", "1", "P") EXCEPT !["Cartn_x"] = "1.000"]}

\* Rows of a table whose columns vary: the sequence numbers parse or not.
SparseRows ==
    {CifRow("A", lseq, aseq, "1", "P") : lseq \in {"1", "2", "?"}, aseq \in {"7", "?"}}

\* The modified-residue table: absent, or one row.
ModTables == {<<>>, <<CifRow("A", "1", "7", "1", "P")>>}

CifDoc(cols, rows, mod_rows) ==
    [format |-> "cif",
     rows |-> [i \in DOMAIN rows |-> Restrict(rows[i], cols)],
     mod_rows |-> [i \in DOMAIN mod_rows |-> Restrict(mod_rows[i], cols)]]

CifDocs ==
    {CifDoc(IdColumns \cup DataColumns, rows, mod_rows) :
        rows \in SeqsUpTo(DenseRows, MaxRows),
        mod_rows \in ModTables}
    \cup
    {CifDoc(cols \cup DataColumns, rows, mod_rows) :
        cols \in SUBSET (IdColumns \cup ModColumns),
        rows \in SeqsUpTo(SparseRows, MaxSparseRows),
        mod_rows \in ModTables}

PdbAtomLine(altLoc, atomName, chain, number) ==
    [record |-> "ATOM", altLoc |-> altLoc, atomName |-> atomName,
     resName |-> "  G", chain |-> chain, number |-> number, icode |-> " ",
     x |-> 0, y |-> 0, z |-> 0]

PdbAtomLines ==
    {PdbAtomLine(" ", atomName, id[1], id[2]) :
        atomName \in {"P", "C1"}, id \in {<<"A", 1>>, <<"A", 2>>, <<"B", 1>>}}
    \cup {PdbAtomLine(altLoc, "P", "A", 1) : altLoc \in {"A", "B"}}
    \cup {[PdbAtomLine(" ", "P", "A", 1) EXCEPT !.x = 1000]}
    \cup
    {[record |-> "HETATM", altLoc |-> " ", atomName |-> "P",
      resName |-> "PSU", chain |-> "A", number |-> 2, icode |-> " ",
      x |-> 0, y |-> 0, z |-> 0]}

PdbLines ==
    PdbAtomLines
    \cup {[record |-> "MODEL", serial |-> m] : m \in Models}
    \cup {[record |-> "MODRES", resName |-> "PSU", chain |-> "A", number |-> 2,
           icode |-> " ", stdName |-> "  U"]}
    \cup {[record |-> "TER"]}

PdbDocs == {[format |-> "pdb", lines |-> lines] : lines \in SeqsUpTo(PdbLines, MaxRows)}

\* ------------------------------------------------------------- the actions

Idle2D ==
    /\ dssr = EmptyDict
    /\ structure3d = <<>>
    /\ base_pairs = <<>>
    /\ stackings = <<>>

Init ==
    /\ pc = "start"
    /\ doc \in CifDocs \cup PdbDocs
    /\ model \in Models
    /\ atoms = <<>>
    /\ modified = EmptyDict
    /\ residues = <<>>
    /\ Idle2D

\* read_3d_structure, line 23, tag-based input.
ParseCif ==
    /\ pc = "start"
    /\ is_cif(doc)
    /\ LET r == parse_cif(doc)
       IN  /\ pc' = IF r.raised THEN "error" ELSE "parsed"
           /\ atoms' = r.atoms
           /\ modified' = r.modified
    /\ UNCHANGED <<doc, model, residues, dssr, structure3d, base_pairs, stackings>>

\* read_3d_structure, line 23, fixed-column input.
ParsePdb ==
    /\ pc = "start"
    /\ ~is_cif(doc)
    /\ LET r == parse_pdb(doc)
       IN  /\ pc' = IF r.raised THEN "error" ELSE "parsed"
           /\ atoms' = r.atoms
           /\ modified' = r.modified
    /\ UNCHANGED <<doc, model, residues, dssr, structure3d, base_pairs, stackings>>

\* read_3d_structure, lines 24-25: the model filter and group_atoms.
GroupAtoms ==
    /\ pc = "parsed"
    /\ residues' = group_atoms(FilterModel(atoms, model), modified)
    /\ pc' = "done"
    /\ UNCHANGED <<doc, model, atoms, modified, dssr, structure3d, base_pairs, stackings>>

Next == ParseCif \/ ParsePdb \/ GroupAtoms

Spec == Init /\ [][Next]_vars

\* ------------------------------------------------- the annotation payloads

\* A dict with the keys whose value is present.
Dict3(k1, v1, k2, v2, k3, v3) ==
    [k \in (IF v1 # None THEN {k1} ELSE {}) \cup (IF v2 # None THEN {k2} ELSE {})
           \cup (IF v3 # None THEN {k3} ELSE {}) |->
        IF k = k1 THEN v1[1] ELSE IF k = k2 THEN v2[1] ELSE v3[1]]

FullNames == {"G1", "G2"}

Structures ==
    {[i \in DOMAIN names |-> Residue(i, names[i])] :
        names \in SeqsUpTo(FullNames, MaxResidues)}

\* Descriptors are "A:G1", "G2", "A:X9" (names no residue) and "G1:A" (its
\* last piece names no residue).
PairOf(nt1, nt2, lw) == Dict3("nt1", nt1, "nt2", nt2, "LW", lw)

StackOf(tokens) == [nts_long |-> tokens]

\* The pair "A:G1", "G2", cWW, the pairs that differ from it in one side or
\* in the code, and a pair with no first side and a code that is no member.
Pairs ==
    {PairOf(nt1, Some(<<"G2">>), Some("cWW")) :
        nt1 \in {None, Some(<<"A", "G1">>), Some(<<"A", "X9">>)}}
    \cup {PairOf(Some(<<"A", "G1">>), nt2, Some("cWW")) :
        nt2 \in {None, Some(<<"G1", "A">>)}}
    \cup {PairOf(Some(<<"A", "G1">>), Some(<<"G2">>), lw) :
        lw \in {None, Some("tHS"), Some("xyz"), Some("__doc__")}}
    \cup {PairOf(None, Some(<<"G2">>), Some("__doc__"))}

Stacks ==
    {StackOf(tokens) :
        tokens \in (SeqsUpTo({<<"A", "G1">>, <<"G2">>, <<"A", "X9">>}, MaxTokens)
                    \ {<<>>}) \cup {EmptyString}}
    \cup {EmptyDict}

\* Payloads in which the per-model list and the top level vary.
RecordParameters ==
    {None,
     Some([pairs |-> <<PairOf(Some(<<"A", "G1">>), Some(<<"G2">>), Some("cWW"))>>,
           stacks |-> <<StackOf(<<<<"A", "G1">>, <<"G2">>>>)>>]),
     Some([pairs |-> <<PairOf(Some(<<"A", "G1">>), Some(<<"G2">>), Some("tWW"))>>])}

Records ==
    {Dict3("model", m, "parameters", p, "", None) :
        m \in {None} \cup {Some(x) : x \in Models}, p \in RecordParameters}

TopPairs == <<PairOf(Some(<<"A", "G1">>), Some(<<"G2">>), Some("cHH"))>>

TopStacks == <<StackOf(<<<<"G2">>, <<"A", "G1">>>>)>>

SelectionPayloads ==
    {Dict3("models", results, "pairs", top[1], "stacks", top[2]) :
        results \in {None} \cup {Some(r) : r \in SeqsUpTo(Records, MaxRecords)},
        top \in {<<None, None>>, <<Some(TopPairs), Some(TopStacks)>>}}

\* Payloads with one record, of model 1, whose pairs vary.
PairPayloads ==
    {[models |-> <<[model |-> 1, parameters |-> [pairs |-> pairs]]>>] :
        pairs \in SeqsUpTo(Pairs, MaxPairs)}

\* Payloads with one record, of model 1, whose stacks vary: no stack, one
\* stack, or one stack before the stack "G2,A:G1".
StackPayloads ==
    {[models |-> <<[model |-> 1, parameters |-> [stacks |-> stacks]]>>] :
        stacks \in {<<>>} \cup {<<s>> : s \in Stacks}
                   \cup {<<s>> \o TopStacks : s \in Stacks}}

Idle3D ==
    /\ doc = EmptyDict
    /\ atoms = <<>>
    /\ modified = EmptyDict
    /\ residues = <<>>

InitDssr ==
    /\ pc = "start"
    /\ model \in Models
    /\ structure3d \in Structures
    /\ dssr \in SelectionPayloads \cup PairPayloads \cup StackPayloads
    /\ base_pairs = <<>>
    /\ stackings = <<>>
    /\ Idle3D

\* read_secondary_structure_from_dssr: the Structure2D it returns, or the
\* exception it ends with.
ReadDssr ==
    /\ pc = "start"
    /\ LET r == read_secondary_structure_from_dssr(structure3d, model, dssr)
       IN  /\ pc' = IF r.raised THEN "error" ELSE "done"
           /\ base_pairs' = r.base_pairs
           /\ stackings' = r.stackings
    /\ UNCHANGED <<doc, model, atoms, modified, residues, dssr, structure3d>>

NextDssr == ReadDssr

SpecDssr == InitDssr /\ [][NextDssr]_vars

\* ------------------------------------------------- properties: the reader

\* The rows of the requested model, as positions of the parsed atom list.
ModelRows == {i \in DOMAIN atoms : atoms[i].model = model}

\* The (label key, auth key) of the atom at position i.
RowKey(i) == <<atoms[i].label, atoms[i].auth>>

\* Position i opens a run: it is the first row of the model, or the row of
\* the model before it has another key.
OpensRun(i) ==
    /\ i \in ModelRows
    /\ \A j \in ModelRows :
          (j < i /\ \A k \in ModelRows : ~(j < k /\ k < i)) => RowKey(j) # RowKey(i)

\* The number of the run (1, 2, ...) the row at position i lies in.
RunOf(i) == Cardinality({j \in ModelRows : j <= i /\ OpensRun(j)})

\* Row i repeats, field for field, an earlier row of its own run.
RepeatsInRun(i) ==
    \E j \in ModelRows : j < i /\ atoms[j] = atoms[i] /\ RunOf(j) = RunOf(i)

RECURSIVE TotalAtoms(_, _)
TotalAtoms(rs, n) ==
    IF n = 0 THEN 0 ELSE TotalAtoms(rs, n - 1) + Cardinality(rs[n].atoms)

\* C1: the residues of the returned structure carry the indices 1, 2, ..., n
\* in output order, across chain changes, and no row of the requested model
\* gives an empty residue sequence.
C1_GlobalIndex ==
    pc = "done" =>
        /\ \A r \in DOMAIN residues : residues[r].index = r
        /\ ModelRows = {} => residues = <<>>

\* C1, witness: three residues were built and the chain changes between the
\* first two.
C1_Witness ==
    /\ pc = "done"
    /\ Len(residues) = 3
    /\ residues[1].auth # None /\ residues[2].auth # None
    /\ residues[1].auth[1].chain # residues[2].auth[1].chain

\* C2 as stated: the atom sets of the residues hold as many atoms as there
\* are parsed rows of the requested model, identical rows included.
C2_NoAtomLost ==
    pc = "done" => TotalAtoms(residues, Len(residues)) = Cardinality(ModelRows)

\* C2 as amended: the atom sets hold one atom per row of the requested
\* model, except that a row repeating an earlier row of its own run in every
\* field adds nothing; without such a row the total is the row count.
C2_DistinctAtoms ==
    pc = "done" =>
        /\ TotalAtoms(residues, Len(residues))
              = Cardinality({i \in ModelRows : ~RepeatsInRun(i)})
        /\ (\A i \in ModelRows : ~RepeatsInRun(i))
              => TotalAtoms(residues, Len(residues)) = Cardinality(ModelRows)

\* C2, witness: a structure was built from a table that holds a row of
\* another model and a repeated row, which was folded into its residue's
\* atom set.
C2_Witness ==
    /\ pc = "done"
    /\ residues # <<>>
    /\ \E i \in ModelRows : RepeatsInRun(i)
    /\ ModelRows # DOMAIN atoms

\* C3: the residues are the maximal runs of equal (label key, auth key) of
\* the rows of the model, in order: neighbours with one key share a residue,
\* neighbours with two keys lie in consecutive residues, and a key that
\* comes back after another key opens a residue of its own.
C3_ContiguousRuns ==
    pc = "done" =>
        /\ Len(residues) = Cardinality({i \in ModelRows : OpensRun(i)})
        /\ \A r \in DOMAIN residues :
              /\ residues[r].atoms = {atoms[i] : i \in {j \in ModelRows : RunOf(j) = r}}
              /\ \A i \in ModelRows :
                    RunOf(i) = r =>
                        <<residues[r].label, residues[r].auth>> = RowKey(i)

\* C3, witness: three residues, the third with the key of the first.
C3_Witness ==
    /\ pc = "done"
    /\ Len(residues) = 3
    /\ residues[1].label # None
    /\ <<residues[1].label, residues[1].auth>> = <<residues[3].label, residues[3].auth>>
    /\ residues[1].auth = residues[2].auth

\* The name C4 gives a residue; a mapped parent name is compared in the
\* lower case the reader stores it in.
ResolvedName(auth, label) ==
    IF auth # None /\ auth \in DOMAIN modified THEN Lower(modified[auth])
    ELSE IF label # None /\ label \in DOMAIN modified THEN Lower(modified[label])
    ELSE IF auth # None THEN auth[1].name
    ELSE IF label # None THEN label[1].name
    ELSE "n"

\* C4: every residue is named by the priority auth modification entry, label
\* modification entry, auth residue name, label residue name, 'n'; an absent
\* key takes no name from a modification entry.
C4_NamePriority ==
    pc = "done" =>
        \A r \in DOMAIN residues :
            residues[r].name = ResolvedName(residues[r].auth, residues[r].label)

\* A row of the atom table with a complete label key or a complete auth key.
HasCompleteScheme(row_dict) ==
    \/ /\ {"label_asym_id", "label_seq_id", "label_comp_id"} \subseteq DOMAIN row_dict
       /\ row_dict["label_seq_id"] \in DOMAIN IntTable
    \/ /\ {"auth_asym_id", "auth_seq_id", "auth_comp_id", "pdbx_PDB_ins_code"}
             \subseteq DOMAIN row_dict
       /\ row_dict["auth_seq_id"] \in DOMAIN IntTable

\* C5: every atom a parser returns has a complete label key or a complete
\* auth key, and a table with a row having neither fails to parse.
C5_CompleteScheme ==
    /\ pc \in {"parsed", "done"} =>
          \A i \in DOMAIN atoms : atoms[i].label # None \/ atoms[i].auth # None
    /\ (pc # "start" /\ is_cif(doc)
        /\ \E i \in DOMAIN doc.rows : ~HasCompleteScheme(doc.rows[i]))
          => pc = "error"

\* The primary alternate-location indicator of the fixed-column format.
PrimaryAltLoc == "A"

\* C6: parse_pdb returns one atom for each ATOM/HETATM line whose
\* alternate-location indicator is blank or primary, and none for the rest.
C6_PrimaryConformer ==
    (pc # "start" /\ ~is_cif(doc)) =>
        Len(atoms) = Cardinality({i \in DOMAIN doc.lines :
                                     /\ IsAtomLine(doc.lines[i])
                                     /\ doc.lines[i].altLoc \in {" ", PrimaryAltLoc}})

\* --------------------------------------------- properties: the 2D import

\* The dict the pair and stack loops read.
Selected == select_model(dssr, model)

\* The residue full name a descriptor names.
TokenName(nt_id) == nt_id[Len(nt_id)]

\* The descriptor names a residue of the structure.
Resolves(nt_id) == \E i \in DOMAIN structure3d : structure3d[i].full_name = TokenName(nt_id)

FirstNamed(name) ==
    structure3d[CHOOSE i \in DOMAIN structure3d :
        /\ structure3d[i].full_name = name
        /\ \A j \in 1..(i - 1) : structure3d[j].full_name # name]

\* C7: with no per-model record of the target model the pairing and stacking
\* lists are empty, whatever else the payload carries.
C7_NoRecordNoRelations ==
    (/\ pc = "done"
     /\ \A i \in DOMAIN GetOr(dssr, "models", <<>>) :
           Get(dssr["models"][i], "model") # Some(model))
        => base_pairs = <<>> /\ stackings = <<>>

\* The pair has two resolving descriptors and a member name as its code.
PairResolves(pair) ==
    /\ {"nt1", "nt2", "LW"} \subseteq DOMAIN pair
    /\ Resolves(pair["nt1"]) /\ Resolves(pair["nt2"])
    /\ pair["LW"] \in LeontisWesthof

\* The relations C8 expects of a pair list: its resolving pairs in order.
RECURSIVE ExpectedPairs(_)
ExpectedPairs(pairs) ==
    IF pairs = <<>> THEN <<>>
    ELSE LET pair == pairs[1]
             rest == ExpectedPairs(SubSeq(pairs, 2, Len(pairs)))
         IN  IF PairResolves(pair)
             THEN <<BasePair(FirstNamed(TokenName(pair["nt1"])),
                             FirstNamed(TokenName(pair["nt2"])), pair["LW"])>> \o rest
             ELSE rest

\* C8: the import raises nothing and returns, in payload order, a BasePair
\* for exactly the pairs whose two descriptors resolve and whose code is
\* recognised.
C8_ResolvablePairsEmitted ==
    pc # "start" =>
        /\ pc = "done"
        /\ base_pairs = ExpectedPairs(GetOr(Selected, "pairs", <<>>))

\* C9: match_dssr_lw raises for no code and returns a class exactly for the
\* member names.
C9_ClosedEnumeration ==
    pc # "start" =>
        \A i \in DOMAIN GetOr(Selected, "pairs", <<>>) :
            LET lw == Get(Selected["pairs"][i], "LW")
                r == match_dssr_lw(lw)
            IN  /\ ~r.raised
                /\ r.value # None <=> (lw # None /\ lw[1] \in LeontisWesthof)

\* The descriptors of a stack.
TokensOf(stack) == GetOr(stack, "nts_long", EmptyString)

RECURSIVE SumOver(_, _)
SumOver(counts, n) == IF n = 0 THEN 0 ELSE SumOver(counts, n - 1) + counts[n]

\* Per stack, one less than the number of resolving descriptors (or 0).
ResolvedLessOne(stack) ==
    LET k == Cardinality({i \in DOMAIN TokensOf(stack) : Resolves(TokensOf(stack)[i])})
    IN  IF k <= 1 THEN 0 ELSE k - 1

\* Per stack, the positions whose descriptor and the next both resolve.
AdjacentResolved(stack) ==
    {i \in DOMAIN TokensOf(stack) :
        /\ i + 1 \in DOMAIN TokensOf(stack)
        /\ Resolves(TokensOf(stack)[i]) /\ Resolves(TokensOf(stack)[i + 1])}

\* C10 as stated: a stack whose list has k resolving descriptors gives k-1
\* relations, wherever the unresolved ones lie.
C10_ResolvedLessOne ==
    pc = "done" =>
        LET stacks == GetOr(Selected, "stacks", <<>>)
        IN  Len(stackings)
               = SumOver([s \in DOMAIN stacks |-> ResolvedLessOne(stacks[s])], Len(stacks))

\* The j-th relation, by the residue names of its endpoints, that the
\* stacks from the s-th on give: one per adjacent resolving pair, in order.
RECURSIVE ExpectedStackings(_, _, _)
ExpectedStackings(stacks, s, i) ==
    IF s > Len(stacks) THEN <<>>
    ELSE IF i >= Len(TokensOf(stacks[s])) THEN ExpectedStackings(stacks, s + 1, 1)
    ELSE (IF i \in AdjacentResolved(stacks[s])
          THEN <<Stacking(FirstNamed(TokenName(TokensOf(stacks[s])[i])),
                          FirstNamed(TokenName(TokensOf(stacks[s])[i + 1])))>>
          ELSE <<>>) \o ExpectedStackings(stacks, s, i + 1)

\* C10 as amended: a stack gives one relation per pair of neighbouring
\* descriptors that both resolve, in order, between the first residues they
\* name; that is k-1 relations when the resolving descriptors are
\* neighbours throughout, and fewer when an unresolved one lies between two
\* of them.
C10_AdjacentResolved ==
    pc = "done" =>
        LET stacks == GetOr(Selected, "stacks", <<>>)
        IN  /\ Len(stackings)
                  = SumOver([s \in DOMAIN stacks |-> Cardinality(AdjacentResolved(stacks[s]))],
                            Len(stacks))
            /\ stackings = ExpectedStackings(stacks, 1, 1)
            /\ \A s \in DOMAIN stacks :
                  Cardinality(AdjacentResolved(stacks[s])) <= ResolvedLessOne(stacks[s])

\* C10, witness: a stack was read in which an unresolved descriptor lies
\* between two resolving ones, and no relation was emitted for it.
C10_Witness ==
    /\ pc = "done"
    /\ \E s \in DOMAIN GetOr(Selected, "stacks", <<>>) :
          LET t == TokensOf(Selected["stacks"][s])
          IN  /\ Len(t) = 3
              /\ Resolves(t[1]) /\ ~Resolves(t[2]) /\ Resolves(t[3])
    /\ stackings = <<>>

====
